---- MODULE Spec2Model ----
(***************************************************************************)
(* Model of the PSP dashboard pipeline of app.py: PSPAnalyzer.load_excel,  *)
(* PSPAnalyzer.detect_columns, PSPAnalyzer.process_data and the upload     *)
(* branch of main().                                                       *)
(*                                                                         *)
(* Strings are sequences of one-character strings, so that str.lower(),    *)
(* the substring test `a in b` and Python's string order are computed, not *)
(* assumed.  A cell or a number is a record [k, v, s]: k = "num" (v the    *)
(* integer), "str" (s the characters), "nan", "inf" or "ninf".  The three  *)
(* derived percentage columns hold hundredths of a percent in v (6667 is   *)
(* 66.67), which is what round(2) leaves.                                  *)
(***************************************************************************)
EXTENDS Integers, Sequences, FiniteSets, TLC

VARIABLES
    pc,              \* position in main(): idle, load, detect, coerce, rate, shares, render, done, crashed
    uploads,         \* number of files uploaded so far in this session
    uploaded_file,   \* the file handed over by st.file_uploader
    df,              \* main(): df = analyzer.load_excel(uploaded_file)
    detected,        \* process_data(): detected_columns
    df_processed,    \* process_data(): df_processed
    result,          \* main(): processed_data = analyzer.process_data(df)
    processed_data,  \* analyzer.processed_data (kept in st.session_state.analyzer)
    session_data,    \* st.session_state.data
    errors,          \* st.error messages and uncaught exceptions shown in this run
    ran,             \* the steps of the pipeline executed in this run
    rendered         \* whether overview, filters and charts were rendered in this run

vars == << pc, uploads, uploaded_file, df, detected, df_processed, result,
           processed_data, session_data, errors, ran, rendered >>

-----------------------------------------------------------------------------
(* Bounds of the model *)

\* longest table of the grouped-rows input family
MaxRows == 3
\* largest press-buy count of the grouped-rows family; cells range over -MaxVal..MaxVal
MaxVal == 1
\* largest single (country, week) group of the large-group family
MaxGroupRows == 25
\* uploads per session
MaxUploads == 2

-----------------------------------------------------------------------------
(* Characters and strings *)

UpperCase == <<"A","B","C","D","E","F","G","H","I","J","K","L","M","N","O","P","Q","R","S","T","U","V","W","X","Y","Z">>
LowerCase == <<"a","b","c","d","e","f","g","h","i","j","k","l","m","n","o","p","q","r","s","t","u","v","w","x","y","z">>
Digits == <<"0","1","2","3","4","5","6","7","8","9">>

\* the characters of the model in code-point order (Python compares strings by code point)
CodePoints == <<" ", "-">> \o Digits \o UpperCase \o <<"_">> \o LowerCase

IndexOf(seq, x) == CHOOSE i \in 1..Len(seq) : seq[i] = x

Range(seq) == { seq[i] : i \in 1..Len(seq) }

\* str.lower() on one character
UpperToLower == [c \in Range(UpperCase) |-> LowerCase[IndexOf(UpperCase, c)]]

LowerChar(c) == IF c \in DOMAIN UpperToLower THEN UpperToLower[c] ELSE c

RECURSIVE Lower(_)
\* str.lower()
Lower(s) == IF s = <<>> THEN <<>> ELSE <<LowerChar(Head(s))>> \o Lower(Tail(s))

\* Python's `a in b` on strings: a is a contiguous substring of b
Contains(b, a) ==
    \E i \in 1..(Len(b) - Len(a) + 1) : SubSeq(b, i, i + Len(a) - 1) = a

RECURSIVE StrLess(_, _)
\* Python's a < b on strings
StrLess(a, b) ==
    IF Len(b) = 0 THEN FALSE
    ELSE IF Len(a) = 0 THEN TRUE
    ELSE IF a[1] = b[1] THEN StrLess(Tail(a), Tail(b))
    ELSE IndexOf(CodePoints, a[1]) < IndexOf(CodePoints, b[1])

-----------------------------------------------------------------------------
(* Canonical field names and the synonym table of detect_columns *)

F_country == <<"c","o","u","n","t","r","y">>
F_psp == <<"p","s","p">>
F_week == <<"w","e","e","k">>
F_press_buy == <<"p","r","e","s","s","_","b","u","y">>
F_converted == <<"c","o","n","v","e","r","t","e","d">>
F_payment_option == <<"p","a","y","m","e","n","t","_","o","p","t","i","o","n">>

column_mapping ==
  <<
    \* 'country': ['country', 'Country', 'COUNTRY', 'market', 'Market', 'MARKET']
    [target_col |-> F_country, possible_names |-> <<
        <<"c","o","u","n","t","r","y">>,
        <<"C","o","u","n","t","r","y">>,
        <<"C","O","U","N","T","R","Y">>,
        <<"m","a","r","k","e","t">>,
        <<"M","a","r","k","e","t">>,
        <<"M","A","R","K","E","T">>
    >>],
    \* 'psp': ['psp', 'PSP', 'payment service provider', 'Payment Provider', 'provider', 'Provider']
    [target_col |-> F_psp, possible_names |-> <<
        <<"p","s","p">>,
        <<"P","S","P">>,
        <<"p","a","y","m","e","n","t"," ","s","e","r","v","i","c","e"," ","p","r","o","v","i","d","e","r">>,
        <<"P","a","y","m","e","n","t"," ","P","r","o","v","i","d","e","r">>,
        <<"p","r","o","v","i","d","e","r">>,
        <<"P","r","o","v","i","d","e","r">>
    >>],
    \* 'week': ['week', 'Week', 'WEEK', 'date', 'Date', 'period', 'Period']
    [target_col |-> F_week, possible_names |-> <<
        <<"w","e","e","k">>,
        <<"W","e","e","k">>,
        <<"W","E","E","K">>,
        <<"d","a","t","e">>,
        <<"D","a","t","e">>,
        <<"p","e","r","i","o","d">>,
        <<"P","e","r","i","o","d">>
    >>],
    \* 'press_buy': ['press buy count', 'press_buy_count', 'PressBuyCount', 'press buy', 'buys', 'Buys']
    [target_col |-> F_press_buy, possible_names |-> <<
        <<"p","r","e","s","s"," ","b","u","y"," ","c","o","u","n","t">>,
        <<"p","r","e","s","s","_","b","u","y","_","c","o","u","n","t">>,
        <<"P","r","e","s","s","B","u","y","C","o","u","n","t">>,
        <<"p","r","e","s","s"," ","b","u","y">>,
        <<"b","u","y","s">>,
        <<"B","u","y","s">>
    >>],
    \* 'converted': ['converted count', 'converted_count', 'ConvertedCount', 'converted', 'conversions', 'Conversions']
    [target_col |-> F_converted, possible_names |-> <<
        <<"c","o","n","v","e","r","t","e","d"," ","c","o","u","n","t">>,
        <<"c","o","n","v","e","r","t","e","d","_","c","o","u","n","t">>,
        <<"C","o","n","v","e","r","t","e","d","C","o","u","n","t">>,
        <<"c","o","n","v","e","r","t","e","d">>,
        <<"c","o","n","v","e","r","s","i","o","n","s">>,
        <<"C","o","n","v","e","r","s","i","o","n","s">>
    >>],
    \* 'payment_option': ['last selected payment option', 'payment option', 'payment method']
    [target_col |-> F_payment_option, possible_names |-> <<
        <<"l","a","s","t"," ","s","e","l","e","c","t","e","d"," ","p","a","y","m","e","n","t"," ","o","p","t","i","o","n">>,
        <<"p","a","y","m","e","n","t"," ","o","p","t","i","o","n">>,
        <<"p","a","y","m","e","n","t"," ","m","e","t","h","o","d">>
    >>]
  >>

\* the derived columns process_data adds
F_conversion_rate == <<"c","o","n","v","e","r","s","i","o","n","_","r","a","t","e">>
F_press_buy_share == <<"p","r","e","s","s","_","b","u","y","_","s","h","a","r","e">>
F_converted_share == <<"c","o","n","v","e","r","t","e","d","_","s","h","a","r","e">>


-----------------------------------------------------------------------------
(* Values, tables and files *)

Num(n) == [k |-> "num", v |-> n, s |-> <<>>]
Str(s) == [k |-> "str", v |-> 0, s |-> s]
NaN == [k |-> "nan", v |-> 0, s |-> <<>>]
Inf == [k |-> "inf", v |-> 0, s |-> <<>>]
NegInf == [k |-> "ninf", v |-> 0, s |-> <<>>]

\* a DataFrame: column labels and rows of cells, and Python's None
DataFrame(columns, rows) == [none |-> FALSE, columns |-> columns, rows |-> rows]
None == [none |-> TRUE, columns |-> <<>>, rows |-> <<>>]

\* an uploaded file: whether pd.read_excel can read it, and its first sheet
File(readable, columns, rows) == [readable |-> readable, columns |-> columns, rows |-> rows]
NoFile == File(FALSE, <<>>, <<>>)

\* no column resolved
NoColumns == [t \in {} |-> <<>>]

Min(S) == CHOOSE x \in S : \A y \in S : x <= y
Max(S) == CHOOSE x \in S : \A y \in S : x >= y

-----------------------------------------------------------------------------
(* PSPAnalyzer.detect_columns *)

\* possible_name.lower() in col.lower() or col.lower() in possible_name.lower()
FuzzyMatch(possible_name, col) ==
    \/ Contains(Lower(col), Lower(possible_name))
    \/ Contains(Lower(possible_name), Lower(col))

RECURSIVE DetectOne(_, _, _)
\* the loop over possible_names for one target_col, from the i-th name on:
\* the header bound (a singleton), or {} when the list is exhausted
DetectOne(possible_names, available_columns, i) ==
    IF i > Len(possible_names) THEN {}
    ELSE LET possible_name == possible_names[i]
             fuzzy == { j \in 1..Len(available_columns) :
                           FuzzyMatch(possible_name, available_columns[j]) }
         IN  IF possible_name \in Range(available_columns) THEN {possible_name}
             ELSE IF fuzzy # {} THEN {available_columns[Min(fuzzy)]}
             ELSE DetectOne(possible_names, available_columns, i + 1)

\* detected_columns: target_col -> source header, for the targets that matched
detect_columns(available_columns) ==
    LET hit(i) == DetectOne(column_mapping[i].possible_names, available_columns, 1)
        found == { i \in 1..Len(column_mapping) : hit(i) # {} }
    IN  [t \in { column_mapping[i].target_col : i \in found } |->
            LET i == CHOOSE i \in found : column_mapping[i].target_col = t
            IN  CHOOSE h \in hit(i) : TRUE]

-----------------------------------------------------------------------------
(* PSPAnalyzer.process_data: required columns and rename *)

\* ['country', 'psp', 'week', 'press_buy', 'converted']
required_columns == <<F_country, F_psp, F_week, F_press_buy, F_converted>>

\* a required-column check that forgets the last field, 'converted'
RequiredDetected_ForgetsConverted(d) ==
    \A i \in 1..(Len(required_columns) - 1) : required_columns[i] \in DOMAIN d

\* all(col in detected_columns for col in [...])
RequiredDetected(d) == \A i \in 1..Len(required_columns) : required_columns[i] \in DOMAIN d

\* the required fields detect_columns left unresolved
Unresolved(d) == { f \in Range(required_columns) : f \notin DOMAIN d }

\* df.rename(columns={v: k for k, v in detected_columns.items()}): the dict
\* comprehension keeps, for a header bound to several targets, the last target
\* in the insertion order of detected_columns (the order of column_mapping)
RenameColumns(columns, d) ==
    [j \in 1..Len(columns) |->
        LET ks == { i \in 1..Len(column_mapping) :
                       /\ column_mapping[i].target_col \in DOMAIN d
                       /\ d[column_mapping[i].target_col] = columns[j] }
        IN  IF ks = {} THEN columns[j] ELSE column_mapping[Max(ks)].target_col]

\* the positions of the columns labelled name
ColumnIndex(t, name) == { j \in 1..Len(t.columns) : t.columns[j] = name }

\* t[name] is a Series only when exactly one column has that label: with none it
\* raises KeyError, with several it is a DataFrame
HasSeries(t, name) == Cardinality(ColumnIndex(t, name)) = 1

Cell(t, i, name) == t.rows[i][CHOOSE j \in ColumnIndex(t, name) : TRUE]

\* t[name] = values: replaces the column, or appends it when the label is new
SetColumn(t, name, values) ==
    IF ColumnIndex(t, name) = {}
    THEN DataFrame(Append(t.columns, name),
                   [i \in 1..Len(t.rows) |-> Append(t.rows[i], values[i])])
    ELSE DataFrame(t.columns,
                   [i \in 1..Len(t.rows) |->
                       [j \in 1..Len(t.columns) |->
                           IF t.columns[j] = name THEN values[i] ELSE t.rows[i][j]]])

-----------------------------------------------------------------------------
(* PSPAnalyzer.process_data: numeric coercion *)

IsDigits(s) == Len(s) > 0 /\ \A i \in 1..Len(s) : s[i] \in Range(Digits)

RECURSIVE DigitsValue(_)
DigitsValue(s) ==
    IF Len(s) = 0 THEN 0
    ELSE 10 * DigitsValue(SubSeq(s, 1, Len(s) - 1)) + (IndexOf(Digits, s[Len(s)]) - 1)

\* pd.to_numeric(..., errors='coerce') on one cell: a number stays, a string of
\* an optionally signed integer is parsed, anything else becomes NaN
to_numeric(cell) ==
    IF cell.k = "num" THEN cell
    ELSE IF cell.k = "str" /\ IsDigits(cell.s) THEN Num(DigitsValue(cell.s))
    ELSE IF cell.k = "str" /\ Len(cell.s) > 1 /\ cell.s[1] = "-" /\ IsDigits(Tail(cell.s))
         THEN Num(0 - DigitsValue(Tail(cell.s)))
    ELSE NaN

\* .fillna(0)
fillna0(x) == IF x.k = "nan" THEN Num(0) ELSE x

\* pd.to_numeric(cell, errors='coerce') followed by fillna(0)
CoerceCell(cell) == fillna0(to_numeric(cell))

\* df_processed[col] = pd.to_numeric(df_processed[col], errors='coerce').fillna(0)
CoerceColumn(t, col) ==
    SetColumn(t, col, [i \in 1..Len(t.rows) |-> CoerceCell(Cell(t, i, col))])

numeric_columns == <<F_press_buy, F_converted>>

-----------------------------------------------------------------------------
(* PSPAnalyzer.process_data: conversion rate *)

\* a / b rounded to the nearest integer, ties to the even one (numpy's round), b # 0
RoundHalfEven(a, b) ==
    LET n == IF b < 0 THEN 0 - a ELSE a
        d == IF b < 0 THEN 0 - b ELSE b
        q == n \div d
        r == n % d
    IN  IF 2 * r > d \/ (2 * r = d /\ q % 2 = 1) THEN q + 1 ELSE q

\* (converted / press_buy * 100).round(2), in hundredths; float division by
\* zero gives inf, -inf or (0 / 0) NaN
RatePercent(converted, press_buy) ==
    IF press_buy.v = 0
    THEN IF converted.v > 0 THEN Inf ELSE IF converted.v < 0 THEN NegInf ELSE NaN
    ELSE Num(RoundHalfEven(converted.v * 10000, press_buy.v))

\* .replace([np.inf, -np.inf], 0)
ReplaceInf(x) == IF x.k \in {"inf", "ninf"} THEN Num(0) ELSE x

\* the conversion_rate of one row after both statements
ConversionRateOf(converted, press_buy) == ReplaceInf(RatePercent(converted, press_buy))

-----------------------------------------------------------------------------
(* PSPAnalyzer.process_data: shares by (country, week) *)

group_columns == <<F_country, F_week>>

\* groupby drops the rows in which a key is missing (dropna=True)
KeyPresent(t, i) == \A g \in 1..Len(group_columns) : Cell(t, i, group_columns[g]).k # "nan"

SameGroup(t, i, j) ==
    \A g \in 1..Len(group_columns) : Cell(t, i, group_columns[g]) = Cell(t, j, group_columns[g])

\* order of two key cells of the same kind (keys of the model are all strings
\* or all numbers within a column)
CellLess(a, b) == IF a.k = "num" /\ b.k = "num" THEN a.v < b.v ELSE StrLess(a.s, b.s)

\* groupby(sort=True): groups ordered by country, then week
GroupLess(t, i, j) ==
    \/ CellLess(Cell(t, i, F_country), Cell(t, j, F_country))
    \/ /\ Cell(t, i, F_country) = Cell(t, j, F_country)
       /\ CellLess(Cell(t, i, F_week), Cell(t, j, F_week))

RECURSIVE SumOver(_, _, _)
\* group[col].sum() over the rows of the set members
SumOver(t, col, members) ==
    IF members = {} THEN 0
    ELSE LET i == Min(members)
         IN  Cell(t, i, col).v + SumOver(t, col, members \ {i})

\* a share cut off after two decimals instead of rounded
SharePercent_Truncated(value, total) ==
    IF total > 0 THEN Num((value * 10000) \div total) ELSE Num(0)

\* (group[col] / total * 100).round(2) if total > 0 else 0, in hundredths
SharePercent(value, total) ==
    IF total > 0 THEN Num(RoundHalfEven(value * 10000, total)) ELSE Num(0)

\* calculate_shares for the row i of t, whose group is the set members
ShareOf(t, col, i, members) == SharePercent(Cell(t, i, col).v, SumOver(t, col, members))

\* the rows groupby keeps, in the order of the input
KeptRows(t) == SelectSeq([i \in 1..Len(t.rows) |-> i], LAMBDA i : KeyPresent(t, i))

RECURSIVE InsertByGroup(_, _, _)
\* the row i put into the group-sorted list sorted, behind the rows of its own group
InsertByGroup(t, sorted, i) ==
    IF sorted = <<>> THEN <<i>>
    ELSE IF GroupLess(t, i, Head(sorted)) THEN <<i>> \o sorted
    ELSE <<Head(sorted)>> \o InsertByGroup(t, Tail(sorted), i)

RECURSIVE SortByGroup(_, _)
\* the rows of the list rows, group after group in sorted order of the keys,
\* each group in the order of the input
SortByGroup(t, rows) ==
    IF rows = <<>> THEN <<>>
    ELSE InsertByGroup(t, SortByGroup(t, SubSeq(rows, 1, Len(rows) - 1)), rows[Len(rows)])

\* the rows of the result: with group keys added to the index (pandas 2 and
\* later) the groups follow one another in sorted order; otherwise the
\* transform-like result is put back in the order of the input
ResultOrder(t, group_keys) ==
    IF group_keys THEN SortByGroup(t, KeptRows(t)) ELSE KeptRows(t)

\* df_processed.groupby(['country', 'week']).apply(calculate_shares).reset_index(drop=True)
GroupByApply(t, group_keys) ==
    LET order == ResultOrder(t, group_keys)
        members(i) == { j \in 1..Len(t.rows) : KeyPresent(t, j) /\ SameGroup(t, i, j) }
    IN  DataFrame(t.columns \o <<F_press_buy_share, F_converted_share>>,
                  [r \in 1..Len(order) |->
                      t.rows[order[r]] \o
                          << ShareOf(t, F_press_buy, order[r], members(order[r])),
                             ShareOf(t, F_converted, order[r], members(order[r])) >>])

-----------------------------------------------------------------------------
(* The uploaded files of the model *)

H_CountryCode == <<"C","o","u","n","t","r","y"," ","C","o","d","e">>
H_Country == <<"C","o","u","n","t","r","y">>
H_PSP == <<"P","S","P">>
H_Week == <<"W","e","e","k">>
H_Count == <<"C","o","u","n","t">>
H_Buys == <<"B","u","y","s">>
H_Converted == <<"C","o","n","v","e","r","t","e","d">>
H_press_buy_count == <<"p","r","e","s","s"," ","b","u","y"," ","c","o","u","n","t">>
H_press_buy == <<"p","r","e","s","s","_","b","u","y">>
H_PaymentMethod == <<"P","a","y","m","e","n","t"," ","M","e","t","h","o","d">>
H_MarketProvider == <<"M","a","r","k","e","t"," ","P","r","o","v","i","d","e","r">>
S_US == <<"U","S">>
S_DE == <<"D","E">>
S_W1 == <<"W","1">>
S_PayPal == <<"P","a","y","P","a","l">>
S_Stripe == <<"S","t","r","i","p","e">>
S_abc == <<"a","b","c">>
S_5 == <<"5">>
S_minus5 == <<"-","5">>
S_1 == <<"1">>
S_2 == <<"2">>

\* headers a sheet may carry, in sheet order
HeaderPool == << H_CountryCode, H_Country, H_PSP, H_Week, H_Count, H_Buys, H_Converted,
                 H_press_buy_count, H_press_buy, H_PaymentMethod, H_MarketProvider >>

Reverse(seq) == [i \in 1..Len(seq) |-> seq[Len(seq) + 1 - i]]

\* the headers of HeaderPool at the positions S, in pool order
PickHeaders(S) ==
    [r \in 1..Cardinality(S) |->
        HeaderPool[CHOOSE i \in S : Cardinality({ j \in S : j < i }) = r - 1]]

\* every selection of pool headers, in pool order and in the opposite order
HeaderLists ==
    { PickHeaders(S) : S \in SUBSET (1..Len(HeaderPool)) } \cup
    { Reverse(PickHeaders(S)) : S \in SUBSET (1..Len(HeaderPool)) }

\* sheets that differ in their headers: two rows, every cell a numeric string
HeaderFiles ==
    { File(TRUE, hs, << [j \in 1..Len(hs) |-> Str(S_2)], [j \in 1..Len(hs) |-> Str(S_1)] >>) :
        hs \in HeaderLists }

\* the headers of the sheets that differ in their rows
PlainHeaders == << H_Country, H_PSP, H_Week, H_Buys, H_Converted >>

Row(country, psp, week, press_buy, converted) == << country, psp, week, press_buy, converted >>

\* the cell values of a count column: negative, zero and positive numbers,
\* numeric strings, an empty cell, an empty string and a non-numeric string
CellValues ==
    { Num(n) : n \in (0 - MaxVal)..MaxVal } \cup
    { Str(S_5), Str(S_minus5), Str(S_abc), Str(<<>>), NaN }

\* one-row sheets over every pair of count cells
CellFiles ==
    { File(TRUE, PlainHeaders, << Row(Str(S_US), Str(S_PayPal), Str(S_W1), p, c) >>) :
        p \in CellValues, c \in CellValues }

\* (country, week) of a row: two countries, and an empty country cell
GroupKeys == { <<Str(S_US), Str(S_W1)>>, <<Str(S_DE), Str(S_W1)>>, <<NaN, Str(S_W1)>> }

GroupRows ==
    { Row(key[1], Str(S_PayPal), key[2], Num(v), Num(MaxVal - v)) :
        key \in GroupKeys, v \in 0..MaxVal }

\* sheets of up to MaxRows rows in any order of groups
GroupFiles ==
    { File(TRUE, PlainHeaders, rows) : rows \in UNION { [1..n -> GroupRows] : n \in 1..MaxRows } }

\* sheets holding one group: n1 rows with press buy 1 followed by n2 rows with press buy 2
LargeGroupFiles ==
    { File(TRUE, PlainHeaders,
           [i \in 1..(n[1] + n[2]) |->
               Row(Str(S_US), Str(S_PayPal), Str(S_W1),
                   Num(IF i <= n[1] THEN 1 ELSE 2), Num(1))]) :
        n \in { m \in (0..MaxGroupRows) \X (0..MaxGroupRows) :
                   m[1] + m[2] >= 1 /\ m[1] + m[2] <= MaxGroupRows } }

\* the two-row sheet (US, PayPal, W1, 100, 20), (US, Stripe, W1, 50, 10)
ScenarioFile ==
    File(TRUE, PlainHeaders,
         << Row(Str(S_US), Str(S_PayPal), Str(S_W1), Num(100), Num(20)),
            Row(Str(S_US), Str(S_Stripe), Str(S_W1), Num(50), Num(10)) >>)

\* a sheet whose second row has an empty week cell
EmptyWeekFile ==
    File(TRUE, PlainHeaders,
         << Row(Str(S_US), Str(S_PayPal), Str(S_W1), Num(1), Num(1)),
            Row(Str(S_US), Str(S_Stripe), NaN, Num(1), Num(1)) >>)

\* a file pd.read_excel cannot read
CorruptFile == File(FALSE, <<>>, <<>>)

\* a sheet without any country-like header
NoCountryFile ==
    File(TRUE, << H_PSP, H_Week, H_Buys, H_Converted >>,
         << << Str(S_PayPal), Str(S_W1), Num(1), Num(1) >> >>)

\* the files of a first upload
Files == HeaderFiles \cup CellFiles \cup GroupFiles \cup LargeGroupFiles
             \cup { ScenarioFile, EmptyWeekFile, CorruptFile, NoCountryFile }

\* the files of a later upload in the same session
SessionFiles == { ScenarioFile, CorruptFile, NoCountryFile }

-----------------------------------------------------------------------------
(* The session: main() run once per upload *)

\* an st.error message or an uncaught exception: its kind and the fields it names
Message(kind, named) == [kind |-> kind, named |-> named]

Init ==
    /\ pc = "idle"
    /\ uploads = 0
    /\ uploaded_file = NoFile
    /\ df = None
    /\ detected = NoColumns
    /\ df_processed = None
    /\ result = None
    /\ processed_data = None
    /\ session_data = None
    /\ errors = <<>>
    /\ ran = {}
    /\ rendered = FALSE

\* st.file_uploader hands over a file and Streamlit runs main() from the top;
\* st.session_state (the analyzer and data) is all that survives the last run
Upload(f) ==
    /\ pc \in {"idle", "done", "crashed"}
    /\ uploads < MaxUploads
    /\ uploads' = uploads + 1
    /\ uploaded_file' = f
    /\ pc' = "load"
    /\ df' = None
    /\ detected' = NoColumns
    /\ df_processed' = None
    /\ result' = None
    /\ errors' = <<>>
    /\ ran' = {}
    /\ rendered' = FALSE
    /\ UNCHANGED << processed_data, session_data >>

\* df = analyzer.load_excel(uploaded_file); if df is not None: ...
LoadExcel ==
    /\ pc = "load"
    /\ IF uploaded_file.readable
       THEN /\ df' = DataFrame(uploaded_file.columns, uploaded_file.rows)
            /\ pc' = "detect"
            /\ errors' = errors
       ELSE /\ df' = None
            /\ pc' = "done"
            /\ errors' = Append(errors, Message("load", {}))
    /\ UNCHANGED << uploads, uploaded_file, detected, df_processed, result,
                    processed_data, session_data, ran, rendered >>

\* process_data up to the rename: detect_columns, the required-column check
\* (st.error and return None) and df.rename
DetectAndRename ==
    /\ pc = "detect"
    /\ detected' = detect_columns(df.columns)
    /\ ran' = ran \cup {"detect"}
    /\ IF RequiredDetected(detected')
       THEN /\ df_processed' = DataFrame(RenameColumns(df.columns, detected'), df.rows)
            /\ pc' = "coerce"
            /\ errors' = errors
       ELSE /\ df_processed' = None
            /\ pc' = "done"
            /\ errors' = Append(errors, Message("schema", {}))
    /\ UNCHANGED << uploads, uploaded_file, df, result, processed_data, session_data, rendered >>

\* the loop over numeric_columns; a label that is missing (KeyError) or
\* repeated (to_numeric of a DataFrame: TypeError) ends the run
Coerce ==
    /\ pc = "coerce"
    /\ ran' = ran \cup {"coerce"}
    /\ IF \A c \in 1..Len(numeric_columns) : HasSeries(df_processed, numeric_columns[c])
       THEN /\ df_processed' = CoerceColumn(CoerceColumn(df_processed, numeric_columns[1]),
                                            numeric_columns[2])
            /\ pc' = "rate"
            /\ errors' = errors
       ELSE /\ df_processed' = None
            /\ pc' = "crashed"
            /\ errors' = Append(errors, Message("exception", {}))
    /\ UNCHANGED << uploads, uploaded_file, df, detected, result, processed_data,
                    session_data, rendered >>

\* df_processed['conversion_rate'] = ...round(2), then replace of inf and -inf
ConversionRate ==
    /\ pc = "rate"
    /\ ran' = ran \cup {"rate"}
    /\ df_processed' =
           SetColumn(df_processed, F_conversion_rate,
                     [i \in 1..Len(df_processed.rows) |->
                         ConversionRateOf(Cell(df_processed, i, F_converted),
                                          Cell(df_processed, i, F_press_buy))])
    /\ pc' = "shares"
    /\ UNCHANGED << uploads, uploaded_file, df, detected, result, processed_data,
                    session_data, errors, rendered >>

\* groupby(...).apply(calculate_shares).reset_index(drop=True), then
\* self.processed_data = df_processed and return; a missing or repeated key
\* label makes groupby raise.  The order of the result depends on the pandas
\* in use, which the repository does not pin.
CalculateShares ==
    /\ pc = "shares"
    /\ ran' = ran \cup {"shares"}
    /\ IF \A g \in 1..Len(group_columns) : HasSeries(df_processed, group_columns[g])
       THEN /\ \E group_keys \in BOOLEAN :
                   df_processed' = GroupByApply(df_processed, group_keys)
            /\ processed_data' = df_processed'
            /\ result' = df_processed'
            /\ pc' = "render"
            /\ errors' = errors
       ELSE /\ df_processed' = None
            /\ processed_data' = processed_data
            /\ result' = None
            /\ pc' = "crashed"
            /\ errors' = Append(errors, Message("exception", {}))
    /\ UNCHANGED << uploads, uploaded_file, df, detected, session_data, rendered >>

\* if processed_data is not None: st.session_state.data = processed_data, then
\* the overview, the filters and the per-country sections (create_chart and the
\* widgets themselves are presentation and are not modelled further)
Render ==
    /\ pc = "render"
    /\ session_data' = result
    /\ rendered' = TRUE
    /\ pc' = "done"
    /\ UNCHANGED << uploads, uploaded_file, df, detected, df_processed, result,
                    processed_data, errors, ran >>

Next ==
    \/ \E f \in (IF uploads = 0 THEN Files ELSE SessionFiles) : Upload(f)
    \/ LoadExcel
    \/ DetectAndRename
    \/ Coerce
    \/ ConversionRate
    \/ CalculateShares
    \/ Render

Spec == Init /\ [][Next]_vars

-----------------------------------------------------------------------------
(* Properties *)

Abs(x) == IF x < 0 THEN 0 - x ELSE x

\* the run has gone through detect_columns
Detected == "detect" \in ran

\* process_data has returned a table in this run
HasResult == ~result.none

\* what process_data is given, renamed and coerced: the rows the output is compared with
CoercedInput ==
    CoerceColumn(CoerceColumn(DataFrame(RenameColumns(df.columns, detected), df.rows),
                              F_press_buy), F_converted)

\* the rows of the output that belong to the (country, week) group of its row i
GroupOf(t, i) == { j \in 1..Len(t.rows) : SameGroup(t, i, j) }

\* the first row of every group of the output
GroupHeads(t) == { i \in 1..Len(t.rows) : i = Min(GroupOf(t, i)) }

\* C1: whenever a header is exactly equal to one of a field's candidate
\* synonyms, detect_columns binds that field to a header that is itself an
\* exact match of a candidate, never to one reached only by substring matching.
C1_ExactMatchNotOverridden ==
    Detected =>
        \A i \in 1..Len(column_mapping) :
            LET names == Range(column_mapping[i].possible_names)
                t == column_mapping[i].target_col
            IN  (Range(df.columns) \cap names # {}) =>
                    (t \in DOMAIN detected /\ detected[t] \in names)

\* C2: if load_excel fails or a required field is unresolved, the run ends
\* there: coercion, conversion rate and shares are never executed, process_data
\* yields no table and main renders nothing for that file.
C2_ErrorsAbortPipeline ==
    LET loadFailed == uploads > 0 /\ pc # "load" /\ ~uploaded_file.readable
        schemaFailed == Detected /\ Unresolved(detected) # {}
    IN  (loadFailed \/ schemaFailed) =>
            /\ pc = "done"
            /\ ran \cap {"coerce", "rate", "shares"} = {}
            /\ df_processed = None
            /\ result = None
            /\ ~rendered

\* C2 witness: a run that stopped at the required-column check with its error shown.
C2_Witness_Aborted ==
    /\ pc = "done"
    /\ Detected
    /\ Unresolved(detected) # {}
    /\ errors # <<>>

\* C3: when required fields are unresolved the schema error names exactly the
\* unresolved required fields; when only payment_option is unresolved there is
\* no schema error.
C3_SchemaErrorNamesUnresolved ==
    Detected =>
        LET schema == { i \in 1..Len(errors) : errors[i].kind = "schema" }
        IN  IF Unresolved(detected) = {}
            THEN schema = {}
            ELSE schema # {} /\ \A i \in schema : errors[i].named = Unresolved(detected)

\* C4: after coercion every press_buy and converted cell is a number greater
\* than or equal to 0, whatever the input cell was.
C4_CoercedCellsNonNegative ==
    pc = "rate" =>
        \A i \in 1..Len(df_processed.rows) : \A c \in 1..Len(numeric_columns) :
            LET x == Cell(df_processed, i, numeric_columns[c])
            IN  x.k = "num" /\ x.v >= 0

\* C5: in every row conversion_rate is a finite number: 0 when press_buy is 0
\* (whatever converted is), otherwise converted / press_buy * 100 rounded to two
\* decimals.
C5_ConversionRateDefined ==
    (pc \in {"shares", "render", "done"} /\ ~df_processed.none) =>
        \A i \in 1..Len(df_processed.rows) :
            LET p == Cell(df_processed, i, F_press_buy)
                c == Cell(df_processed, i, F_converted)
                r == Cell(df_processed, i, F_conversion_rate)
            IN  /\ r.k = "num"
                /\ r.v = IF p.v = 0 THEN 0 ELSE RoundHalfEven(c.v * 10000, p.v)

\* C6: the output of process_data has as many rows as the input, and its i-th
\* row carries the fields of the i-th input row.
C6_RowsInInputOrder ==
    HasResult =>
        /\ Len(result.rows) = Len(df.rows)
        /\ \A i \in 1..Len(result.rows) :
               SubSeq(result.rows[i], 1, Len(df.columns)) = CoercedInput.rows[i]

\* C7 as claimed, on groups of non-negative counts: in every group whose
\* press_buy total is nonzero the press_buy_share values sum to 100 within 0.1,
\* whatever the size of the group.
C7_ShareSumWithinTenth ==
    HasResult =>
        \A i \in GroupHeads(result) :
            LET g == GroupOf(result, i)
            IN  (/\ \A j \in g : Cell(result, j, F_press_buy).v >= 0
                 /\ SumOver(result, F_press_buy, g) # 0) =>
                    Abs(SumOver(result, F_press_buy_share, g) - 10000) <= 10

\* C7 as amended: in every group whose press_buy total is positive the
\* press_buy_share values sum to 100 within 0.005 per row of the group (twice
\* the distance, in hundredths, is at most the number of rows).
C7_ShareSumWithinHalfCentPerRow ==
    HasResult =>
        \A i \in GroupHeads(result) :
            LET g == GroupOf(result, i)
            IN  SumOver(result, F_press_buy, g) > 0 =>
                    2 * Abs(SumOver(result, F_press_buy_share, g) - 10000) <= Cardinality(g)

\* C7 witness: a group of more than 20 rows with a positive total whose shares
\* sum to more than 0.1 away from 100.
C7_Witness_LargeGroupOffByMoreThanTenth ==
    /\ HasResult
    /\ \E i \in GroupHeads(result) :
           LET g == GroupOf(result, i)
           IN  /\ Cardinality(g) > 20
               /\ SumOver(result, F_press_buy, g) > 0
               /\ Abs(SumOver(result, F_press_buy_share, g) - 10000) > 10

\* C8: in every output row press_buy_share is the row's press_buy over the sum
\* of its (country, week) group, times 100, rounded to two decimals, and 0 when
\* that sum is 0; converted_share likewise with converted.
C8_ShareIsValueOverGroupSum ==
    HasResult =>
        \A i \in 1..Len(result.rows) :
            \A m \in { <<F_press_buy, F_press_buy_share>>, <<F_converted, F_converted_share>> } :
                LET total == SumOver(result, m[1], GroupOf(result, i))
                    x == Cell(result, i, m[2])
                IN  /\ x.k = "num"
                    /\ x.v = IF total = 0 THEN 0
                             ELSE RoundHalfEven(Cell(result, i, m[1]).v * 10000, total)

\* C9: once an upload has been handled, the table held in the session
\* (analyzer.processed_data and st.session_state.data) is the one derived from
\* that upload: none after a load or schema error.
C9_HeldTableIsOfThisUpload ==
    pc = "done" => (processed_data = result /\ session_data = result)

\* C10: detect_columns never binds two fields to the same header, so after the
\* rename every resolved field has a column.
C10_MappingInjective ==
    Detected =>
        /\ \A t1 \in DOMAIN detected : \A t2 \in DOMAIN detected :
               t1 # t2 => detected[t1] # detected[t2]
        /\ pc = "coerce" =>
               \A t \in DOMAIN detected : ColumnIndex(df_processed, t) # {}

====
